---- MODULE Spec2Model ----
\* A model of the CrystalValue orchestrator (src/crystalvalue.py): its
\* configuration fields, the warehouse and managed-ML collaborators it calls,
\* and one action per public method.
EXTENDS Integers, Sequences, FiniteSets, TLC

VARIABLES
  features_types,   \* self.features_types : Optional[Mapping[str, List[str]]]
  ignore_columns,   \* self.ignore_columns : Optional[Collection[str]]
  model_id,         \* self.model_id       : Optional[str]
  endpoint_id,      \* self.endpoint_id    : Optional[str]
  bq_tables,        \* warehouse: tables materialised in the dataset
  ml_models,        \* managed-ML service: names of the trained models
  ml_deployed,      \* managed-ML service: [model, endpoint] deployments
  op,               \* the last method called, with its arguments
  calls,            \* the collaborator calls that method made, in order
  outcome           \* "ok", or the error the method raised

vars == <<features_types, ignore_columns, model_id, endpoint_id,
          bq_tables, ml_models, ml_deployed, op, calls, outcome>>

self_fields == <<features_types, ignore_columns, model_id, endpoint_id>>
services == <<bq_tables, ml_models, ml_deployed>>

----------------------------------------------------------------------------
\* Bounds of the model.

\* Models the service can train in one run.
MaxModels == 2
\* Endpoints the service can create in one run.
MaxEndpoints == 2
\* Longest ignore_columns list a run may build.
MaxIgnoreLen == 5

----------------------------------------------------------------------------
\* Python values.  A str is a sequence of one-character strings; an Optional
\* is None or a one-element tuple holding the value.

None == <<>>
Some(v) == <<v>>
IsNone(o) == Len(o) = 0

\* bool(x) of an Optional[str] or Optional[list]: None and the empty
\* string / list are falsy.
Truthy(o) == ~IsNone(o) /\ Len(o[1]) > 0

\* bool(x) of an Optional[Mapping]: None and the empty mapping are falsy.
TruthyMap(o) == ~IsNone(o) /\ DOMAIN o[1] # {}

EmptyMap == [c \in {} |-> <<>>]

Elems(s) == {s[i] : i \in 1..Len(s)}

RECURSIVE SplitFrom(_, _, _, _)
\* str.split(sep): cur is the segment being read, acc the segments read.
SplitFrom(s, sep, cur, acc) ==
  IF s = <<>> THEN Append(acc, cur)
  ELSE IF Head(s) = sep THEN SplitFrom(Tail(s), sep, <<>>, Append(acc, cur))
  ELSE SplitFrom(Tail(s), sep, Append(cur, Head(s)), acc)

Split(s, sep) == SplitFrom(s, sep, <<>>, <<>>)

\* seq[-1]
Last(s) == s[Len(s)]

----------------------------------------------------------------------------
\* Configuration defaults of the dataclass.

training_table_name == "training_data"
predict_table_name == "predict_features_data"
customer_id_column == "customer_id"
date_column == "date"

----------------------------------------------------------------------------
\* The managed-ML service.

Digit == <<"1", "2", "3", "4">>

\* The name the service gives the i-th model it trains.
ModelName(i) == <<"m", Digit[i]>>

\* The resource name the service gives the i-th endpoint it creates.
EndpointName(i) == <<"l", "/", "e", "/", Digit[i]>>

\* model_id arguments a caller may pass.
ModelIdArgs == {None, Some(<<>>)} \cup {Some(ModelName(i)) : i \in 1..MaxModels}

\* endpoint_id arguments a caller may pass.
EndpointIdArgs ==
  {None, Some(<<>>)} \cup {Some(<<Digit[i]>>) : i \in 1..MaxEndpoints}

\* The orderings of a finite set, as sequences.
Orderings(S) ==
  {s \in [1..Cardinality(S) -> S] : \A i, j \in 1..Cardinality(S) :
                                        s[i] = s[j] => i = j}

\* The endpoints a model is deployed to.
EndpointsOf(deployed, m) == {d.endpoint : d \in {x \in deployed : x.model = m}}

\* The model's id is known to the service.
KnownModel(id) == Truthy(id) /\ id[1] \in ml_models

\* A call record with what the collaborator did: returned ret, or raised.
Returned(call, ret) ==
  [call |-> call, raised |-> FALSE, ret |-> ret, error |-> ""]
Raised(call, error) ==
  [call |-> call, raised |-> TRUE, ret |-> None, error |-> error]

----------------------------------------------------------------------------
\* CrystalValue.train

\* The value train() stores in self.model_id.
TrainStoredModelId(model) == Some(model.name)

\* Mutant: self.model_id is reset when train() starts.
train_ResetsModelId ==
  /\ op' = [name |-> "train"]
  /\ UNCHANGED <<features_types, ignore_columns, endpoint_id, bq_tables,
                 ml_deployed>>
  /\ LET dataset_call == [fn |-> "create_automl_dataset",
                          table_name |-> training_table_name]
         train_call == [fn |-> "train_automl_model"]
     IN \/ \* automl.create_automl_dataset raises
           /\ calls' = <<Raised(dataset_call, "ServiceError")>>
           /\ outcome' = "ServiceError"
           /\ model_id' = None
           /\ UNCHANGED ml_models
        \/ \* automl.train_automl_model raises
           /\ training_table_name \in bq_tables
           /\ calls' = <<Returned(dataset_call, training_table_name),
                         Raised(train_call, "ServiceError")>>
           /\ outcome' = "ServiceError"
           /\ model_id' = None
           /\ UNCHANGED ml_models
        \/ \* both return
           /\ training_table_name \in bq_tables
           /\ Cardinality(ml_models) < MaxModels
           /\ LET model == [name |-> ModelName(Cardinality(ml_models) + 1)]
              IN /\ ml_models' = ml_models \cup {model.name}
                 /\ model_id' = TrainStoredModelId(model)
                 /\ calls' = <<Returned(dataset_call, training_table_name),
                               Returned(train_call, model)>>
                 /\ outcome' = "ok"

train ==
  /\ op' = [name |-> "train"]
  /\ UNCHANGED <<features_types, ignore_columns, endpoint_id, bq_tables,
                 ml_deployed>>
  /\ LET dataset_call == [fn |-> "create_automl_dataset",
                          table_name |-> training_table_name]
         train_call == [fn |-> "train_automl_model"]
     IN \/ \* automl.create_automl_dataset raises
           /\ calls' = <<Raised(dataset_call, "ServiceError")>>
           /\ outcome' = "ServiceError"
           /\ UNCHANGED <<model_id, ml_models>>
        \/ \* automl.train_automl_model raises
           /\ training_table_name \in bq_tables
           /\ calls' = <<Returned(dataset_call, training_table_name),
                         Raised(train_call, "ServiceError")>>
           /\ outcome' = "ServiceError"
           /\ UNCHANGED <<model_id, ml_models>>
        \/ \* both return
           /\ training_table_name \in bq_tables
           /\ Cardinality(ml_models) < MaxModels
           /\ LET model == [name |-> ModelName(Cardinality(ml_models) + 1)]
              IN /\ ml_models' = ml_models \cup {model.name}
                 /\ model_id' = TrainStoredModelId(model)
                 /\ calls' = <<Returned(dataset_call, training_table_name),
                               Returned(train_call, model)>>
                 /\ outcome' = "ok"

----------------------------------------------------------------------------
\* CrystalValue.batch_predict

\* Mutant: the stored model id wins over the argument.
BatchPredictModelId_StoredFirst(arg) ==
  IF Truthy(model_id) THEN model_id ELSE arg

\* The model id batch_predict() hands to create_batch_predictions.
BatchPredictModelId(arg) == IF ~Truthy(arg) THEN model_id ELSE arg

batch_predict(input_table_name, arg, destination_table) ==
  /\ op' = [name |-> "batch_predict", input_table_name |-> input_table_name,
            model_id |-> arg, destination_table |-> destination_table]
  /\ UNCHANGED <<self_fields, ml_models, ml_deployed>>
  /\ LET id == BatchPredictModelId(arg)
         predict_call == [fn |-> "create_batch_predictions",
                          model_resource_name |-> id,
                          table_name |-> input_table_name]
         load_call == [fn |-> "load_predictions_to_table",
                       destination_table |-> destination_table]
         job == [model |-> id, table_name |-> input_table_name]
     IN \/ \* automl.create_batch_predictions raises
           /\ calls' = <<Raised(predict_call, "ServiceError")>>
           /\ outcome' = "ServiceError"
           /\ UNCHANGED bq_tables
        \/ \* automl.load_predictions_to_table raises
           /\ KnownModel(id)
           /\ input_table_name \in bq_tables
           /\ calls' = <<Returned(predict_call, job), Raised(load_call, "WarehouseError")>>
           /\ outcome' = "WarehouseError"
           /\ UNCHANGED bq_tables
        \/ \* both return
           /\ KnownModel(id)
           /\ input_table_name \in bq_tables
           /\ calls' = <<Returned(predict_call, job),
                         Returned(load_call, destination_table)>>
           /\ outcome' = "ok"
           /\ bq_tables' = bq_tables \cup {destination_table}

----------------------------------------------------------------------------
\* CrystalValue.deploy_model

\* The model id deploy_model() hands to automl.deploy_model.
DeployModelId(arg) == IF ~Truthy(arg) THEN model_id ELSE arg

\* Mutant: the endpoint's resource name is stored whole.
DeployedEndpointId_WholeName(model) ==
  Some(model.deployed_models[1].endpoint)

\* The value deploy_model() stores in self.endpoint_id.
DeployedEndpointId(model) ==
  Some(Last(Split(model.deployed_models[1].endpoint, "/")))

deploy_model(arg) ==
  /\ op' = [name |-> "deploy_model", model_id |-> arg]
  /\ UNCHANGED <<features_types, ignore_columns, model_id, bq_tables,
                 ml_models>>
  /\ LET id == DeployModelId(arg)
         deploy_call == [fn |-> "deploy_model", model_id |-> id]
     IN \/ \* automl.deploy_model raises
           /\ calls' = <<Raised(deploy_call, "ServiceError")>>
           /\ outcome' = "ServiceError"
           /\ UNCHANGED <<endpoint_id, ml_deployed>>
        \/ \* automl.deploy_model returns the deployed model
           /\ KnownModel(id)
           /\ Cardinality(ml_deployed) < MaxEndpoints
           /\ LET endpoint == EndpointName(Cardinality(ml_deployed) + 1)
                  deployed == ml_deployed \cup
                                {[model |-> id[1], endpoint |-> endpoint]}
              IN \E order \in Orderings(EndpointsOf(deployed, id[1])) :
                   LET model == [name |-> id[1],
                                 deployed_models |->
                                   [i \in DOMAIN order |->
                                      [endpoint |-> order[i]]]]
                   IN /\ ml_deployed' = deployed
                      /\ endpoint_id' = DeployedEndpointId(model)
                      /\ calls' = <<Returned(deploy_call, model)>>
                      /\ outcome' = "ok"

----------------------------------------------------------------------------
\* CrystalValue.evaluate_model

\* The endpoint id evaluate_model() hands to evaluate_model_predictions.
EvaluateEndpointId(arg) == IF ~Truthy(arg) THEN endpoint_id ELSE arg

\* The endpoint id names an endpoint of the service.
KnownEndpoint(id) ==
  /\ Truthy(id)
  /\ \E d \in ml_deployed : Last(Split(d.endpoint, "/")) = id[1]

evaluate_model(arg, table_evaluation_stats) ==
  /\ op' = [name |-> "evaluate_model", endpoint_id |-> arg,
            table_evaluation_stats |-> table_evaluation_stats]
  /\ UNCHANGED <<self_fields, ml_models, ml_deployed>>
  /\ LET evaluate_call == [fn |-> "evaluate_model_predictions",
                           endpoint |-> EvaluateEndpointId(arg),
                           model_id |-> model_id,
                           table_evaluation_stats |-> table_evaluation_stats]
     IN \/ \* model_evaluation.evaluate_model_predictions raises
           /\ calls' = <<Raised(evaluate_call, "ServiceError")>>
           /\ outcome' = "ServiceError"
           /\ UNCHANGED bq_tables
        \/ \* it returns the evaluation table
           /\ KnownEndpoint(evaluate_call.endpoint)
           /\ KnownModel(model_id)
           /\ calls' = <<Returned(evaluate_call, table_evaluation_stats)>>
           /\ outcome' = "ok"
           /\ bq_tables' = bq_tables \cup {table_evaluation_stats}

----------------------------------------------------------------------------
\* The warehouse and the feature_engineering collaborators.

Categories == {"numeric", "boolean", "string_or_categorical"}

\* The transaction tables of the dataset and their schemas.
TransactionTables == {"transactions", "visits"}

Schema(table_name) ==
  IF table_name = "transactions"
  THEN << [name |-> "customer_id", type |-> "string_or_categorical"],
          [name |-> "date", type |-> "string_or_categorical"],
          [name |-> "value", type |-> "numeric"],
          [name |-> "is_member", type |-> "boolean"],
          [name |-> "channel", type |-> "string_or_categorical"] >>
  ELSE << [name |-> "customer_id", type |-> "string_or_categorical"],
          [name |-> "date", type |-> "string_or_categorical"],
          [name |-> "channel", type |-> "string_or_categorical"] >>

ColumnNames(table_name) ==
  {Schema(table_name)[i].name : i \in 1..Len(Schema(table_name))}

\* The columns of one category that are not ignored, in schema order.
ColumnsOfType(table_name, ignore, category) ==
  LET kept == SelectSeq(Schema(table_name),
                        LAMBDA f : f.type = category /\ f.name \notin Elems(ignore))
  IN [i \in 1..Len(kept) |-> kept[i].name]

\* feature_engineering.detect_feature_types: the categories that have a
\* column, each with its columns.
detect_feature_types(table_name, ignore) ==
  LET found == {c \in Categories : Len(ColumnsOfType(table_name, ignore, c)) > 0}
  IN [c \in found |-> ColumnsOfType(table_name, ignore, c)]

\* feature_engineering.build_query: the SQL text, by what it is built from.
build_query(query_type, transaction_table_name, features) ==
  [query_type |-> query_type,
   transaction_table_name |-> transaction_table_name,
   features_types |-> features]

\* The query types build_query has a template for.
QueryTemplates == {"train_query", "predict_query"}

\* The error of a build_query that raises.
BuildError(query_type) ==
  IF query_type \in QueryTemplates THEN "WarehouseError" ELSE "KeyError"

\* feature_engineering.run_query: the executor the orchestrator hands call
\* to, after the calls in log.  Exactly one of query_sql and query_file must
\* be given; the query then runs and its result is written to the
\* destination table.
ExecutorRun(call, log) ==
  LET job == [fn |-> "query_job", query_sql |-> call.query_sql,
              query_file |-> call.query_file,
              destination |-> call.destination_table_name]
  IN IF IsNone(call.query_sql) = IsNone(call.query_file)
     THEN /\ calls' = Append(log, Raised(call, "ValueError"))
          /\ outcome' = "ValueError"
          /\ UNCHANGED bq_tables
     ELSE \/ \* the warehouse fails the query
             /\ calls' = log \o <<Raised(call, "WarehouseError"),
                                  Raised(job, "WarehouseError")>>
             /\ outcome' = "WarehouseError"
             /\ UNCHANGED bq_tables
          \/ \* the query runs
             /\ calls' = log \o <<Returned(call, call.destination_table_name),
                                  Returned(job, call.destination_table_name)>>
             /\ outcome' = "ok"
             /\ bq_tables' = bq_tables \cup {call.destination_table_name}

----------------------------------------------------------------------------
\* CrystalValue.run_query

\* Mutant: query_file is not handed on.
RunQueryCall_DropsFile(destination_table_name, query_sql, query_file) ==
  [fn |-> "run_query", query_sql |-> query_sql, query_file |-> None,
   destination_table_name |-> destination_table_name]

\* The arguments run_query() hands to feature_engineering.run_query.
RunQueryCall(destination_table_name, query_sql, query_file) ==
  [fn |-> "run_query", query_sql |-> query_sql, query_file |-> query_file,
   destination_table_name |-> destination_table_name]

run_query(destination_table_name, query_sql, query_file) ==
  /\ op' = [name |-> "run_query",
            destination_table_name |-> destination_table_name,
            query_sql |-> query_sql, query_file |-> query_file]
  /\ UNCHANGED <<self_fields, ml_models, ml_deployed>>
  /\ ExecutorRun(RunQueryCall(destination_table_name, query_sql, query_file),
                 <<>>)

----------------------------------------------------------------------------
\* CrystalValue.feature_engineer

\* Mutant: the configured ignore_columns are dropped.
IgnoreColumnsForDetection_DropsConfigured ==
  Some(<<customer_id_column, date_column>>)

\* The ignore list feature_engineer() stores before it detects.
IgnoreColumnsForDetection ==
  IF ~Truthy(ignore_columns)
  THEN Some(<<customer_id_column, date_column>>)
  ELSE Some(<<customer_id_column, date_column>> \o ignore_columns[1])

\* Mutant: the feature types are detected on every call.
ShouldDetect_Always == TRUE

\* feature_engineer() detects the feature types.
ShouldDetect == ~TruthyMap(features_types)

\* Mutant: an empty mapping is not checked for.
NoFeaturesDetected_Never(detected) == FALSE

\* The detector's mapping holds no feature.
NoFeaturesDetected(detected) == ~TruthyMap(Some(detected))

\* Mutant: every query is written to the training table.
DestinationTable_AlwaysTraining(query_type) ==
  IF query_type \in {"train_query", "predict_query"}
  THEN Some(training_table_name)
  ELSE None

\* The table feature_engineer() writes to; None where the code binds no
\* table_name.
DestinationTable(query_type) ==
  IF query_type = "train_query" THEN Some(training_table_name)
  ELSE IF query_type = "predict_query" THEN Some(predict_table_name)
  ELSE None

\* feature_engineer() from build_query on, with the feature types features
\* and after the calls in log.
BuildAndRun(features, log, transaction_table_name, query_type) ==
  LET build_call == [fn |-> "build_query", query_type |-> query_type,
                     transaction_table_name |-> transaction_table_name,
                     features_types |-> features[1]]
      query == build_query(query_type, transaction_table_name, features[1])
      built == Append(log, Returned(build_call, query))
      table_name == DestinationTable(query_type)
  IN \/ \* feature_engineering.build_query raises
        /\ calls' = Append(log, Raised(build_call, BuildError(query_type)))
        /\ outcome' = BuildError(query_type)
        /\ UNCHANGED bq_tables
     \/ \* it returns the query, and table_name is unbound
        /\ IsNone(table_name)
        /\ calls' = built
        /\ outcome' = "UnboundLocalError"
        /\ UNCHANGED bq_tables
     \/ \* it returns the query, which self.run_query runs
        /\ ~IsNone(table_name)
        /\ ExecutorRun(RunQueryCall(table_name[1], Some(query), None), built)

feature_engineer(transaction_table_name, query_type) ==
  /\ op' = [name |-> "feature_engineer",
            transaction_table_name |-> transaction_table_name,
            query_type |-> query_type]
  /\ UNCHANGED <<model_id, endpoint_id, ml_models, ml_deployed>>
  /\ IF ~ShouldDetect
     THEN /\ UNCHANGED <<features_types, ignore_columns>>
          /\ BuildAndRun(features_types, <<>>, transaction_table_name,
                         query_type)
     ELSE LET ignore == IgnoreColumnsForDetection
              detect_call == [fn |-> "detect_feature_types",
                              table_name |-> transaction_table_name,
                              ignore_columns |-> ignore[1]]
              detected == detect_feature_types(transaction_table_name,
                                               ignore[1])
          IN /\ Len(ignore[1]) <= MaxIgnoreLen
             /\ ignore_columns' = ignore
             /\ \/ \* feature_engineering.detect_feature_types raises
                   /\ UNCHANGED features_types
                   /\ calls' = <<Raised(detect_call, "WarehouseError")>>
                   /\ outcome' = "WarehouseError"
                   /\ UNCHANGED bq_tables
                \/ \* it returns no feature
                   /\ NoFeaturesDetected(detected)
                   /\ features_types' = Some(detected)
                   /\ calls' = <<Returned(detect_call, detected)>>
                   /\ outcome' = "ValueError"
                   /\ UNCHANGED bq_tables
                \/ \* it returns features
                   /\ ~NoFeaturesDetected(detected)
                   /\ features_types' = Some(detected)
                   /\ BuildAndRun(Some(detected),
                                  <<Returned(detect_call, detected)>>,
                                  transaction_table_name, query_type)

----------------------------------------------------------------------------
\* The instance after construction, and the calls a user makes.

\* features_types values a user configures.
FeaturesTypesArgs ==
  {None, Some(EmptyMap), Some([c \in {"numeric"} |-> <<"value">>])}

\* ignore_columns values a user configures.
IgnoreColumnsArgs == {None, Some(<<>>), Some(<<"channel">>)}

\* query_type values a user passes.
QueryTypeArgs == {"train_query", "predict_query", "other_query"}

\* run_query arguments a user passes.
DestinationArgs == {"custom_table"}
QuerySqlArgs == {None, Some("SELECT 1")}
QueryFileArgs == {None, Some("query.sql")}

\* A new instance with the default ids, on a dataset that holds only the
\* transaction tables.
Init ==
  /\ features_types \in FeaturesTypesArgs
  /\ ignore_columns \in IgnoreColumnsArgs
  /\ model_id = None
  /\ endpoint_id = None
  /\ bq_tables = {}
  /\ ml_models = {}
  /\ ml_deployed = {}
  /\ op = [name |-> "__init__"]
  /\ calls = <<>>
  /\ outcome = "ok"

\* A new instance with the default configuration, on a dataset where
\* feature tables may have been materialised.
InitModels ==
  /\ features_types = None
  /\ ignore_columns = None
  /\ model_id = None
  /\ endpoint_id = None
  /\ bq_tables \in SUBSET {training_table_name, predict_table_name}
  /\ ml_models = {}
  /\ ml_deployed = {}
  /\ op = [name |-> "__init__"]
  /\ calls = <<>>
  /\ outcome = "ok"

\* Data preparation and training.
NextFeatures ==
  \/ \E t \in TransactionTables, q \in QueryTypeArgs : feature_engineer(t, q)
  \/ \E d \in DestinationArgs, s \in QuerySqlArgs, f \in QueryFileArgs :
       run_query(d, s, f)
  \/ train

\* The model's life: training, prediction, deployment, evaluation.
NextModels ==
  \/ train
  \/ \E m \in ModelIdArgs :
       batch_predict(predict_table_name, m, "crystalvalue_predictions")
  \/ \E m \in ModelIdArgs : deploy_model(m)
  \/ \E e \in EndpointIdArgs : evaluate_model(e, "crystalvalue_evaluation")

Next == NextFeatures \/ NextModels

\* Every method, in any order.
Spec == Init /\ [][Next]_vars

\* The feature-engineering methods (and train, which reads their table).
SpecFeatures == Init /\ [][NextFeatures]_vars

\* The model methods.
SpecModels == InitModels /\ [][NextModels]_vars

----------------------------------------------------------------------------
\* Vocabulary of the properties.

\* The positions of the calls to collaborator fn in a call log.
CallsTo(log, fn) == {i \in 1..Len(log) : log[i].call.fn = fn}

\* The positions of the calls to fn that returned.
ReturnsOf(log, fn) == {i \in CallsTo(log, fn) : ~log[i].raised}

\* seg is the text after the last "/" of s (all of s when it has none).
IsLastSegment(seg, s) ==
  /\ Len(seg) <= Len(s)
  /\ \A i \in 1..Len(seg) : seg[i] # "/" /\ seg[i] = s[Len(s) - Len(seg) + i]
  /\ Len(seg) < Len(s) => s[Len(s) - Len(seg)] = "/"

\* An argument that falls back to stored state: None or the empty string.
FallsBack(arg) == arg = None \/ arg = Some(<<>>)

\* An Optional[Mapping] that counts as not provided: None or empty.
NotProvided(ft) == ft = None \/ ft = Some(EmptyMap)

\* The columns mapping m lists, with their multiplicity.
Listings(m, column) ==
  UNION {{<<c, i>> : i \in {j \in 1..Len(m[c]) : m[c][j] = column}} :
           c \in DOMAIN m}

\* Mapping m puts every column of columns in exactly one category, and
\* lists no other column.
Partitions(m, columns) ==
  /\ \A column \in columns : Cardinality(Listings(m, column)) = 1
  /\ UNION {Elems(m[c]) : c \in DOMAIN m} = columns

\* The columns feature_engineer ignores, given the configured ignore list.
Ignored(configured) ==
  {customer_id_column, date_column} \cup
    (IF IsNone(configured) THEN {} ELSE Elems(configured[1]))

----------------------------------------------------------------------------
\* Properties.

\* C1: after a successful train() the stored model_id is the name of the
\* model train_automl_model returned, and after a successful deploy_model()
\* the stored endpoint_id is the last "/"-separated segment of the endpoint
\* of the returned model's first deployed model.
C1_IdentifiersPersisted ==
  /\ (op.name = "train" /\ outcome = "ok") =>
       \E i \in ReturnsOf(calls, "train_automl_model") :
         model_id = Some(calls[i].ret.name)
  /\ (op.name = "deploy_model" /\ outcome = "ok") =>
       \E i \in ReturnsOf(calls, "deploy_model") :
         /\ ~IsNone(endpoint_id)
         /\ IsLastSegment(endpoint_id[1],
                          calls[i].ret.deployed_models[1].endpoint)

\* C1 witness: a deployment returned a model with two deployed models, after
\* a train() stored the model id.
C1_Witness ==
  /\ op.name = "deploy_model" /\ outcome = "ok"
  /\ Len(calls[1].ret.deployed_models) = 2
  /\ model_id = Some(calls[1].ret.name)
  /\ endpoint_id = Some(<<"2">>)

\* C2: batch_predict and deploy_model hand the service the caller's model_id
\* when it is truthy and the stored model_id when it is None or empty;
\* evaluate_model does the same with endpoint_id.
C2_FallbackOrder ==
  [][/\ op'.name = "batch_predict" =>
          \A i \in CallsTo(calls', "create_batch_predictions") :
            calls'[i].call.model_resource_name =
              IF FallsBack(op'.model_id) THEN model_id ELSE op'.model_id
     /\ op'.name = "deploy_model" =>
          \A i \in CallsTo(calls', "deploy_model") :
            calls'[i].call.model_id =
              IF FallsBack(op'.model_id) THEN model_id ELSE op'.model_id
     /\ op'.name = "evaluate_model" =>
          \A i \in CallsTo(calls', "evaluate_model_predictions") :
            calls'[i].call.endpoint =
              IF FallsBack(op'.endpoint_id) THEN endpoint_id
              ELSE op'.endpoint_id
     /\ op'.name \in {"batch_predict", "deploy_model", "evaluate_model"} =>
          Len(calls') >= 1]_vars

\* C2 witness: batch_predict was given a model id other than the stored one,
\* and predicted with it.
C2_Witness ==
  /\ op.name = "batch_predict" /\ outcome = "ok"
  /\ ~FallsBack(op.model_id) /\ ~FallsBack(model_id)
  /\ op.model_id # model_id
  /\ calls[1].call.model_resource_name = op.model_id

\* C3: when features_types is not provided and the detector returns an empty
\* mapping, feature_engineer fails, builds no query, runs no query and writes
\* no table.
C3_FailFastOnNoFeatures ==
  [][(/\ op'.name = "feature_engineer"
      /\ NotProvided(features_types)
      /\ \E i \in ReturnsOf(calls', "detect_feature_types") :
           DOMAIN calls'[i].ret = {})
     => /\ outcome' = "ValueError"
        /\ CallsTo(calls', "build_query") = {}
        /\ CallsTo(calls', "run_query") = {}
        /\ CallsTo(calls', "query_job") = {}
        /\ bq_tables' = bq_tables]_vars

\* C3 witness: a feature_engineer call whose detection found no feature.
C3_Witness ==
  /\ op.name = "feature_engineer" /\ outcome = "ValueError"
  /\ Len(calls) = 1
  /\ calls[1].call.fn = "detect_feature_types"
  /\ ~calls[1].raised /\ DOMAIN calls[1].ret = {}

\* C4: run_query with both a query string and a query file, or with neither,
\* fails with a precondition error and executes nothing; a query is executed
\* only when exactly one of the two is supplied.
C4_RunQueryPrecondition ==
  [][op'.name = "run_query" =>
       LET one == IsNone(op'.query_sql) # IsNone(op'.query_file)
       IN /\ CallsTo(calls', "query_job") # {} => one
          /\ ~one => /\ outcome' = "ValueError"
                     /\ bq_tables' = bq_tables]_vars

\* C4 witness: run_query was called with a query string and a query file,
\* and failed.
C4_Witness ==
  /\ op.name = "run_query" /\ outcome = "ValueError"
  /\ ~IsNone(op.query_sql) /\ ~IsNone(op.query_file)

\* C5 as stated: the mapping feature_engineer hands to the query builder
\* puts every non-ignored column of the call's table in exactly one
\* category, and lists no other column.
C5_BuilderMappingPartitions ==
  [][op'.name = "feature_engineer" =>
       \A i \in CallsTo(calls', "build_query") :
         Partitions(calls'[i].call.features_types,
                    ColumnNames(op'.transaction_table_name)
                      \ Ignored(ignore_columns))]_vars

\* C5 as amended: the same, for a mapping the call detected itself.
C5_DetectedMappingPartitions ==
  [][(/\ op'.name = "feature_engineer"
      /\ CallsTo(calls', "detect_feature_types") # {})
     => \A i \in CallsTo(calls', "build_query") :
          Partitions(calls'[i].call.features_types,
                     ColumnNames(op'.transaction_table_name)
                       \ Ignored(ignore_columns))]_vars

\* C5 witness: a call detected the types with a configured ignore list in
\* force, and handed them to the builder.
C5_Witness ==
  /\ op.name = "feature_engineer" /\ outcome = "ok"
  /\ Len(calls) >= 2
  /\ calls[1].call.fn = "detect_feature_types"
  /\ calls[2].call.fn = "build_query"
  /\ "channel" \in Elems(calls[1].call.ignore_columns)
  /\ DOMAIN calls[2].call.features_types = {"numeric", "boolean"}

\* C6: feature_engineer calls the detector if and only if features_types is
\* not provided (None or empty); with a non-empty features_types it hands
\* that mapping to the builder and leaves features_types and ignore_columns
\* as they are.
C6_ExplicitOverride ==
  [][op'.name = "feature_engineer" =>
       /\ CallsTo(calls', "detect_feature_types") # {}
            <=> NotProvided(features_types)
       /\ ~NotProvided(features_types) =>
            /\ features_types' = features_types
            /\ ignore_columns' = ignore_columns
            /\ CallsTo(calls', "build_query") # {}
            /\ \A i \in CallsTo(calls', "build_query") :
                 calls'[i].call.features_types = features_types[1]]_vars

\* C6 witness: a call on an instance configured with features_types ran its
\* query without detecting.
C6_Witness ==
  /\ op.name = "feature_engineer" /\ outcome = "ok"
  /\ calls[1].call.fn = "build_query"
  /\ calls[1].call.features_types = [c \in {"numeric"} |-> <<"value">>]
  /\ ~IsNone(ignore_columns) /\ ignore_columns[1] = <<"channel">>

\* C7: a train() or deploy_model() whose collaborator fails raises that
\* collaborator's error, calls no collaborator twice, and leaves model_id
\* (train) or endpoint_id (deploy_model) as it was.
C7_FailuresLeaveIdsUntouched ==
  [][/\ (op'.name = "train" /\ outcome' # "ok") =>
          /\ model_id' = model_id
          /\ calls'[Len(calls')].raised
          /\ outcome' = calls'[Len(calls')].error
          /\ \A fn \in {"create_automl_dataset", "train_automl_model"} :
               Cardinality(CallsTo(calls', fn)) <= 1
     /\ (op'.name = "deploy_model" /\ outcome' # "ok") =>
          /\ endpoint_id' = endpoint_id
          /\ calls'[Len(calls')].raised
          /\ outcome' = calls'[Len(calls')].error
          /\ Cardinality(CallsTo(calls', "deploy_model")) <= 1]_vars

\* C7 witness: training failed in train_automl_model on an instance that
\* holds a model id and an endpoint id.
C7_Witness ==
  /\ op.name = "train" /\ outcome = "ServiceError"
  /\ Len(calls) = 2 /\ calls[2].raised
  /\ ~IsNone(model_id) /\ ~IsNone(endpoint_id)

\* C8: feature_engineer writes a train_query result to training_table_name,
\* the table train() creates its dataset from, and a predict_query result to
\* predict_table_name; with any other query_type it fails before the query
\* executor, runs no query and writes no table.
C8_DestinationRouting ==
  [][/\ op'.name = "feature_engineer" =>
          LET jobs == CallsTo(calls', "query_job")
              dest == IF op'.query_type = "train_query"
                      THEN training_table_name ELSE predict_table_name
          IN IF op'.query_type \in {"train_query", "predict_query"}
             THEN /\ \A i \in jobs : calls'[i].call.destination = dest
                  /\ bq_tables' \subseteq bq_tables \cup {dest}
                  /\ outcome' = "ok" => jobs # {} /\ dest \in bq_tables'
             ELSE /\ jobs = {}
                  /\ CallsTo(calls', "run_query") = {}
                  /\ outcome' # "ok"
                  /\ bq_tables' = bq_tables
     /\ op'.name = "train" =>
          /\ CallsTo(calls', "create_automl_dataset") # {}
          /\ \A i \in CallsTo(calls', "create_automl_dataset") :
               calls'[i].call.table_name = training_table_name]_vars

\* C8 witness: a predict_query was materialised after a train_query.
C8_Witness ==
  /\ op.name = "feature_engineer" /\ op.query_type = "predict_query"
  /\ outcome = "ok"
  /\ bq_tables = {training_table_name, predict_table_name}

\* The times the customer id column is listed in an ignore list.
TimesPrepended(ignore) ==
  IF IsNone(ignore) THEN 0
  ELSE Cardinality({i \in 1..Len(ignore[1]) :
                      ignore[1][i] = customer_id_column})

\* C9 as stated: the customer id and date columns are prepended to
\* ignore_columns at most once over any sequence of calls, also when a call
\* that failed with 'No features detected' is followed by another call.
C9_PrependedAtMostOnce ==
  [][(/\ op.name = "feature_engineer" /\ outcome = "ValueError"
      /\ op'.name = "feature_engineer")
     => TimesPrepended(ignore_columns') <= 1]_vars

\* C10 as stated: a stored endpoint_id is an endpoint the model with the
\* stored model_id is deployed to.
C10_IdentifierPairing ==
  ~IsNone(endpoint_id) =>
    \E d \in ml_deployed :
      /\ model_id = Some(d.model)
      /\ IsLastSegment(endpoint_id[1], d.endpoint)

====
